---- MODULE Spec2Model ----
(***************************************************************************)
(* Model of packages/components/nodes/tools/AgentExecutorNode.ts:          *)
(* AgentExecutorLangchainTool._call and its five backend handlers.         *)
(*                                                                         *)
(* Several invocations of _call run concurrently on one Node.js event      *)
(* loop.  Each action below is one run-to-completion step of one           *)
(* invocation: the code between two suspension points (await / callback),  *)
(* together with the external event that resumes it.                       *)
(***************************************************************************)
EXTENDS Integers, FiniteSets, Sequences, TLC

\* ---------------------------------------------------------------- bounds
NumInv == 2        \* concurrent invocations of _call
MaxClock == 1      \* Date.now() takes the values 0..MaxClock
MaxChunks == 2     \* 'data' events on the stream of one container exec

Inv == 1..NumInv
Clock == 0..MaxClock

\* ------------------------------------------------------------ JS values
Undefined == "undefined"

\* actionParams itself undefined: every params.x access throws a TypeError
NoParams == [missing |-> TRUE]

\* JavaScript truthiness of a string-or-undefined value
Truthy(v) == v \notin {Undefined, ""}

\* ------------------------------------------------------------ file system
TmpPath(t) == "/tmp/flowise_python_script_" \o ToString(t) \o ".py"
TmpPaths == {TmpPath(t) : t \in Clock}
UserPaths == {"/tmp/t.txt", "/srv/job.py"}
Paths == TmpPaths \cup UserPaths
TmpDir == "/tmp"

\* A file is the sequence of its bytes; NoFile stands for no file at the path
NoFile == <<-1>>

\* ------------------------------------------------------------------- text
\* A JavaScript string is a sequence of characters.  A character is named by
\* a one-letter string, or by a token: "<LF>", "<TAB>", "e'" (U+00E9),
\* "<D800>" (an unpaired surrogate), "<FFFD>" (the replacement character).
Digits == <<"0", "1", "2", "3", "4", "5", "6", "7", "8", "9">>
Lower == <<"a", "b", "c", "d", "e", "f", "g", "h", "i", "j", "k", "l", "m",
           "n", "o", "p", "q", "r", "s", "t", "u", "v", "w", "x", "y", "z">>
HexDigits == Digits \o SubSeq(Lower, 1, 6)

IndexIn(seq, c) == CHOOSE k \in DOMAIN seq : seq[k] = c
IsIn(seq, c) == \E k \in DOMAIN seq : seq[k] = c

\* The characters of the string literals of the requests
CharsOf(s) ==
    CASE s = "" -> <<>>
      [] s = "abc" -> <<"a", "b", "c">>
      [] s = "6a" -> <<"6", "a">>
      [] s = "<D800>" -> <<"<D800>">>
      [] s = "print(1)" -> <<"p", "r", "i", "n", "t", "(", "1", ")">>

\* The string of a sequence of characters
RECURSIVE Concat(_)
Concat(chars) ==
    IF chars = <<>> THEN "" ELSE Head(chars) \o Concat(Tail(chars))

\* The code point of a character
CodeOf(c) ==
    CASE IsIn(Digits, c) -> 47 + IndexIn(Digits, c)
      [] IsIn(Lower, c) -> 96 + IndexIn(Lower, c)
      [] c = "<TAB>" -> 9
      [] c = "<LF>" -> 10
      [] c = " " -> 32
      [] c = "(" -> 40
      [] c = ")" -> 41
      [] c = "-" -> 45
      [] c = "e'" -> 233
      [] c = "<D800>" -> 55296
      [] c = "<FFFD>" -> 65533

\* The character of a code point
CharOf(cp) ==
    CASE cp \in 48..57 -> Digits[cp - 47]
      [] cp \in 97..122 -> Lower[cp - 96]
      [] cp = 9 -> "<TAB>"
      [] cp = 10 -> "<LF>"
      [] cp = 32 -> " "
      [] cp = 40 -> "("
      [] cp = 41 -> ")"
      [] cp = 45 -> "-"
      [] cp = 233 -> "e'"
      [] cp = 65533 -> "<FFFD>"
      [] OTHER -> "<U+" \o ToString(cp) \o ">"

\* Buffer.from(text, 'utf8'): one to three bytes per character; an unpaired
\* surrogate is written as the replacement character EF BF BD.
RECURSIVE Utf8Encode(_)
Utf8Encode(chars) ==
    IF chars = <<>> THEN <<>>
    ELSE LET cp == IF CodeOf(Head(chars)) \in 55296..57343
                   THEN 65533 ELSE CodeOf(Head(chars))
             first == IF cp < 128 THEN <<cp>>
                      ELSE IF cp < 2048
                      THEN <<192 + (cp \div 64), 128 + (cp % 64)>>
                      ELSE <<224 + (cp \div 4096), 128 + ((cp \div 64) % 64),
                             128 + (cp % 64)>>
         IN first \o Utf8Encode(Tail(chars))

IsContinuation(b) == b \in 128..191

\* buffer.toString('utf8'): a byte that does not start or continue a
\* complete sequence is read as the replacement character.
RECURSIVE Utf8Decode(_)
Utf8Decode(bytes) ==
    IF bytes = <<>> THEN <<>>
    ELSE LET b == Head(bytes) IN
         IF b < 128
         THEN <<CharOf(b)>> \o Utf8Decode(Tail(bytes))
         ELSE IF b \in 194..223 /\ Len(bytes) >= 2 /\ IsContinuation(bytes[2])
         THEN <<CharOf(((b - 192) * 64) + (bytes[2] - 128))>>
                  \o Utf8Decode(SubSeq(bytes, 3, Len(bytes)))
         ELSE IF /\ b \in 224..239 /\ Len(bytes) >= 3
                 /\ IsContinuation(bytes[2]) /\ IsContinuation(bytes[3])
         THEN <<CharOf(((b - 224) * 4096) + ((bytes[2] - 128) * 64)
                           + (bytes[3] - 128))>>
                  \o Utf8Decode(SubSeq(bytes, 4, Len(bytes)))
         ELSE <<"<FFFD>">> \o Utf8Decode(Tail(bytes))

\* Buffer.from(text, 'hex'): one byte per pair of hex digits, up to the first
\* pair that is not one; a last odd character is dropped.
RECURSIVE HexEncode(_)
HexEncode(chars) ==
    IF Len(chars) < 2 \/ ~IsIn(HexDigits, chars[1]) \/ ~IsIn(HexDigits, chars[2])
    THEN <<>>
    ELSE <<(16 * (IndexIn(HexDigits, chars[1]) - 1))
               + (IndexIn(HexDigits, chars[2]) - 1)>>
             \o HexEncode(SubSeq(chars, 3, Len(chars)))

\* buffer.toString('hex'): two hex digits per byte
RECURSIVE HexDecode(_)
HexDecode(bytes) ==
    IF bytes = <<>> THEN <<>>
    ELSE <<HexDigits[(Head(bytes) \div 16) + 1],
           HexDigits[(Head(bytes) % 16) + 1]>>
             \o HexDecode(Tail(bytes))

\* The bytes fs.writeFile(path, content, encoding) writes and the text
\* fs.readFile(path, encoding) returns; the encoding is utf8 when the request
\* names none (line 106).
Encode(chars, encoding) ==
    IF encoding = "hex" THEN HexEncode(chars) ELSE Utf8Encode(chars)

DecodeIgnoringEncoding(bytes, encoding) == Utf8Decode(bytes)

Decode(bytes, encoding) ==
    IF encoding = "hex" THEN HexDecode(bytes) ELSE Utf8Decode(bytes)

\* Until the interpreter has opened its script
NotLoaded == <<-2>>

\* ------------------------------------------------------------ JS objects
\* A value handed to JSON.stringify: a string, an array, or an object given
\* by the keys of its literal and the value of each key (a key of the
\* literal may hold undefined).
Keys == {"value", "success", "path", "exists", "stdout", "stderr", "exitCode",
         "failed", "timedOut", "isCanceled", "output", "code", "signal",
         "Id", "message", "error", "details", "actionType", "actionParams"}

Blank == [k \in Keys |-> IF k = "actionParams" THEN NoParams ELSE Undefined]

ObjectOf(keys, val) == [type |-> "object", keys |-> keys, val |-> val, items |-> {}]
StringOf(s) == [type |-> "string", keys |-> {}, val |-> [Blank EXCEPT !.value = s], items |-> {}]
ArrayOf(items) == [type |-> "array", keys |-> {}, val |-> Blank, items |-> items]
NoResult == [type |-> "none", keys |-> {}, val |-> Blank, items |-> {}]

IsDefined(val, k) ==
    IF k = "actionParams" THEN val[k] # NoParams ELSE val[k] # Undefined

\* JSON.stringify(x, null, 2): a string or an array is rendered as it is, an
\* object loses every key whose value is undefined.
JsonStringify(o) ==
    IF o.type = "object"
    THEN [o EXCEPT !.keys = {k \in o.keys : IsDefined(o.val, k)}]
    ELSE o

\* Outcome of a handler promise
Return(o) == [threw |-> FALSE, message |-> Undefined, value |-> o]
Throw(msg) == [threw |-> TRUE, message |-> msg, value |-> NoResult]

\* ------------------------------------------------------------- requests
\* The inputs of _call: {actionType, actionParams}.  A field the caller left
\* out reads as undefined.
NoOptions == [timeout |-> Undefined, reject |-> Undefined]
ExecaOptionsIn == {[timeout |-> t, reject |-> r] :
                       t \in {Undefined, "50"}, r \in {Undefined, "false"}}

ExecuteCommandParams ==
    {[command |-> "sh", options |-> o] : o \in ExecaOptionsIn}
        \cup {[command |-> c, options |-> NoOptions] : c \in {Undefined, ""}}

PythonScriptParams ==
    {[scriptContent |-> c, scriptPath |-> p, options |-> NoOptions] :
        c \in {Undefined, "", "print(1)"}, p \in {Undefined, "/srv/job.py"}}
    \cup {[scriptContent |-> "print(1)", scriptPath |-> Undefined,
           options |-> [timeout |-> "50", reject |-> Undefined]]}
    \cup {[scriptContent |-> "print(1)", scriptPath |-> TmpPath(0),
           options |-> NoOptions]}

SshAuth == {[password |-> "pw", privateKey |-> Undefined],
            [password |-> Undefined, privateKey |-> "key"],
            [password |-> Undefined, privateKey |-> Undefined],
            [password |-> "", privateKey |-> Undefined]}
SshParams ==
    {[host |-> "h", username |-> "u", password |-> a.password,
      privateKey |-> a.privateKey, command |-> "ls"] : a \in SshAuth}
        \cup {[host |-> Undefined, username |-> "u", password |-> "pw",
               privateKey |-> Undefined, command |-> "ls"],
              [host |-> "h", username |-> Undefined, password |-> "pw",
               privateKey |-> Undefined, command |-> "ls"],
              [host |-> "h", username |-> "u", password |-> "pw",
               privateKey |-> Undefined, command |-> Undefined]}

FilesystemParams ==
    {[operation |-> "writeFile", path |-> "/tmp/t.txt", content |-> c,
      encoding |-> e] : c \in {Undefined, "", "abc", "6a", "<D800>"},
                        e \in {Undefined, "hex"}}
    \cup {[operation |-> "readFile", path |-> "/tmp/t.txt",
           content |-> Undefined, encoding |-> e] : e \in {Undefined, "hex"}}
    \cup {[operation |-> o, path |-> "/tmp/t.txt", content |-> Undefined,
           encoding |-> Undefined] :
               o \in {"deleteFile", "listDir", "pathExists", "chmod", Undefined}}
    \cup {[operation |-> "listDir", path |-> TmpDir, content |-> Undefined,
           encoding |-> Undefined],
          [operation |-> "readFile", path |-> Undefined, content |-> Undefined,
           encoding |-> Undefined]}

\* The command of a docker request: a string, an array of strings, or a
\* value of another type (a number, as JSON.parse of the wrapper yields for
\* the text 123)
NoCommand == [type |-> "undefined", chars |-> <<>>, items |-> <<>>]
StringCommand(chars) == [type |-> "string", chars |-> chars, items |-> <<>>]
ArrayCommand(items) == [type |-> "array", chars |-> <<>>, items |-> items]
NumberCommand == [type |-> "number", chars |-> <<>>, items |-> <<>>]

\* !command is false for every array and for a string that is not empty
CommandTruthy(c) ==
    c.type \in {"array", "number"} \/ (c.type = "string" /\ c.chars # <<>>)

DockerCommands ==
    {StringCommand(<<"l", "s", " ", "-", "l">>),
     StringCommand(<<"l", "s", " ", " ", "-", "l">>),
     StringCommand(<<>>),
     ArrayCommand(<<<<"l", "s">>, <<"-", "l">>>>),
     NumberCommand,
     NoCommand}

DockerParams ==
    {[operation |-> "listContainers", containerId |-> Undefined, command |-> NoCommand],
     [operation |-> "inspectContainer", containerId |-> "c1", command |-> NoCommand],
     [operation |-> "inspectContainer", containerId |-> Undefined, command |-> NoCommand],
     [operation |-> "execInContainer", containerId |-> Undefined,
      command |-> StringCommand(<<"l", "s">>)],
     [operation |-> "prune", containerId |-> Undefined, command |-> NoCommand],
     [operation |-> Undefined, containerId |-> Undefined, command |-> NoCommand]}
    \cup {[operation |-> "execInContainer", containerId |-> "c1", command |-> c] :
              c \in DockerCommands}

\* "reboot" stands for an actionType outside the zod enum
KnownActionTypes == {"filesystem", "executeCommand", "docker", "ssh", "pythonScript"}
ActionTypes == KnownActionTypes \cup {"reboot"}

ParamsOf(actionType) ==
    CASE actionType = "filesystem" -> FilesystemParams
      [] actionType = "executeCommand" -> ExecuteCommandParams
      [] actionType = "docker" -> DockerParams
      [] actionType = "ssh" -> SshParams
      [] actionType = "pythonScript" -> PythonScriptParams
      [] OTHER -> {[command |-> "sh", options |-> NoOptions]}

Requests ==
    UNION {{[actionType |-> t, actionParams |-> p] : p \in ParamsOf(t) \cup {NoParams}} :
              t \in ActionTypes}

NoInputs == [actionType |-> Undefined, actionParams |-> NoParams]

\* ---------------------------------------------------------------- state
VARIABLES
    now,               \* Date.now()
    fs,                \* the file system: path -> content, or NoFile
    pc,                \* where each invocation of _call stands
    inputs,            \* the inputs of each invocation
    ret,               \* what _call returned (the parsed JSON text)
    threw,             \* the handler's promise was rejected (_call's catch ran)
    elapsed,           \* the caller-supplied timeout has run out on the process
    finalScriptPath,   \* handlePythonScript's local
    tempScriptWritten, \* handlePythonScript's local
    loaded,            \* what the interpreter read at its script path
    procEvent,         \* history: what happened to the child process of execa
    tempLeft,          \* history: whether the temporary script was still there
                       \* when handlePythonScript returned
    conn,              \* handleSsh's SSHClient
    exec,              \* handleDocker's exec, its attached stream and promise
    calls,             \* history: the handlers _call has called, in order
    lastWrite            \* history: who last wrote the file at each path, and what

vars == <<now, fs, pc, inputs, ret, threw, elapsed, finalScriptPath,
          tempScriptWritten, loaded, procEvent, tempLeft, conn, exec, calls,
          lastWrite>>

\* No exec has been created in the container
NoExec == [created |-> FALSE,      \* container.exec was called
           Cmd |-> <<>>,           \* the Cmd it was given
           attached |-> FALSE,     \* the stream's listeners are attached
           received |-> <<>>,      \* history: the chunks of the 'data' events
           stdoutOutput |-> <<>>,  \* the characters accumulated so far
           ended |-> FALSE,        \* the stream's 'end' was emitted
           errored |-> FALSE,      \* the stream's 'error' was emitted
           inspect |-> "none"]     \* exec.inspect: none, issued, answered

\* Nothing has written the file at a path (since it was last removed)
NoWrite == [by |-> 0, content |-> Undefined, encoding |-> Undefined]

NoConn == [created |-> FALSE, connectCalled |-> FALSE, ready |-> FALSE, ended |-> FALSE]

Init ==
    /\ now = 0
    /\ fs = [p \in Paths |-> IF p = "/srv/job.py"
                              THEN Utf8Encode(CharsOf("print(1)")) ELSE NoFile]
    /\ pc = [i \in Inv |-> "idle"]
    /\ inputs = [i \in Inv |-> NoInputs]
    /\ ret = [i \in Inv |-> NoResult]
    /\ threw = [i \in Inv |-> FALSE]
    /\ elapsed = [i \in Inv |-> FALSE]
    /\ finalScriptPath = [i \in Inv |-> Undefined]
    /\ tempScriptWritten = [i \in Inv |-> FALSE]
    /\ loaded = [i \in Inv |-> NotLoaded]
    /\ procEvent = [i \in Inv |-> "none"]
    /\ tempLeft = [i \in Inv |-> "n/a"]
    /\ conn = [i \in Inv |-> NoConn]
    /\ exec = [i \in Inv |-> NoExec]
    /\ calls = [i \in Inv |-> <<>>]
    /\ lastWrite = [p \in Paths |-> NoWrite]

\* ------------------------------------------------------- _call's boundary
\* Lines 69-79: the handler's value is stringified; whatever the handler (or
\* the default case) threw is caught and turned into the error object.
CallSettleNoCatch(inp, o) ==
    IF o.threw
    THEN [pc |-> "escaped", ret |-> NoResult]
    ELSE [pc |-> "returned", ret |-> JsonStringify(o.value)]

CallSettleNoEcho(inp, o) ==
    IF o.threw
    THEN [pc |-> "returned",
          ret |-> JsonStringify(ObjectOf({"error", "details"},
                     [Blank EXCEPT !.error = o.message, !.details = "stack"]))]
    ELSE [pc |-> "returned", ret |-> JsonStringify(o.value)]

CallSettleSwallow(inp, o) ==
    [pc |-> "returned", ret |-> JsonStringify(o.value)]

CallSettle(inp, o) ==
    IF o.threw
    THEN [pc |-> "returned",
          ret |-> JsonStringify(ObjectOf(
                     {"error", "details", "actionType", "actionParams"},
                     [Blank EXCEPT !.error = o.message,
                                   !.details = "stack",
                                   !.actionType = inp.actionType,
                                   !.actionParams = inp.actionParams]))]
    ELSE [pc |-> "returned", ret |-> JsonStringify(o.value)]

\* The handler's promise of invocation i settles with o and _call returns.
Finish(i, inp, o) ==
    LET s == CallSettle(inp, o) IN
    /\ pc' = [pc EXCEPT ![i] = s.pc]
    /\ ret' = [ret EXCEPT ![i] = s.ret]
    /\ threw' = [threw EXCEPT ![i] = o.threw]

\* The handler of invocation i suspends at an await / callback.
Suspend(i, at) ==
    /\ pc' = [pc EXCEPT ![i] = at]
    /\ UNCHANGED <<ret, threw>>

\* ------------------------------------------------------------------ execa
\* What execa settles with, by what happened to the child process.
ExecaEvents == {"exit0", "exit1", "exit2", "spawnError", "timeout"}

ExecaResult(event) ==
    [stdout |-> IF event = "exit0" THEN "out" ELSE "",
     stderr |-> IF event \in {"exit1", "exit2"} THEN "err" ELSE "",
     exitCode |-> CASE event = "exit0" -> "0"
                    [] event = "exit1" -> "1"
                    [] event = "exit2" -> "2"
                    [] OTHER -> Undefined,
     failed |-> IF event = "exit0" THEN "false" ELSE "true",
     timedOut |-> IF event = "timeout" THEN "true" ELSE "false",
     isCanceled |-> "false",
     shortMessage |-> CASE event = "exit0" -> Undefined
                        [] event = "spawnError" -> "Command failed with ENOENT"
                        [] event = "timeout" -> "Command timed out"
                        [] OTHER -> "Command failed with exit code"]

\* execa rejects on any failure unless the caller passed reject: false
Execa(options, event) ==
    [rejected |-> event # "exit0" /\ options.reject # "false",
     r |-> ExecaResult(event)]

\* ---------------------------------------------------- handleExecuteCommand
\* Line 87: const execaOptions = { ...options, windowsHide: true }
execaOptionsNoTimeout(options) == [options EXCEPT !.timeout = Undefined]

execaOptions(options) == options

ProcessKeys == {"stdout", "stderr", "exitCode", "failed", "timedOut", "isCanceled"}

ProcessVal(r) ==
    [Blank EXCEPT !.stdout = r.stdout, !.stderr = r.stderr,
                  !.exitCode = r.exitCode, !.failed = r.failed,
                  !.timedOut = r.timedOut, !.isCanceled = r.isCanceled]

\* Lines 89-102: the try/catch around execa
handleExecuteCommandRethrow(x) ==
    IF ~x.rejected
    THEN Return(ObjectOf(ProcessKeys, ProcessVal(x.r)))
    ELSE Throw(x.r.shortMessage)

handleExecuteCommandResult(x) ==
    IF ~x.rejected
    THEN Return(ObjectOf(ProcessKeys, ProcessVal(x.r)))
    ELSE Return(ObjectOf(ProcessKeys \cup {"error"},
                         [ProcessVal(x.r) EXCEPT !.error = x.r.shortMessage]))

\* Lines 82-90, up to the await of execa
handleExecuteCommand(i, inp) ==
    LET params == inp.actionParams IN
    /\ IF params = NoParams
       THEN Finish(i, inp, Throw("TypeError: cannot read properties of undefined"))
       ELSE IF ~Truthy(params.command)
       THEN Finish(i, inp, Throw("Missing command parameter for executeCommand"))
       ELSE Suspend(i, "cmd_running")
    /\ UNCHANGED <<now, fs, elapsed, finalScriptPath, tempScriptWritten, loaded, procEvent, tempLeft, conn, exec, lastWrite>>

\* The child process exits, or could not be started; the await of line 90 ends.
ExecuteCommandSettles(i, event) ==
    /\ pc[i] = "cmd_running"
    /\ event \in {"exit0", "exit1", "spawnError"}
    /\ Finish(i, inputs[i], handleExecuteCommandResult(
                  Execa(execaOptions(inputs[i].actionParams.options), event)))
    /\ procEvent' = [procEvent EXCEPT ![i] = event]
    /\ UNCHANGED <<now, fs, inputs, elapsed, finalScriptPath, tempScriptWritten,
                   loaded, tempLeft, conn, calls, exec, lastWrite>>

\* The caller's timeout runs out while the child process is still running:
\* execa, when it was given the timeout, kills the child and settles.
ExecuteCommandDeadline(i) ==
    /\ pc[i] = "cmd_running"
    /\ ~elapsed[i]
    /\ Truthy(inputs[i].actionParams.options.timeout)
    /\ elapsed' = [elapsed EXCEPT ![i] = TRUE]
    /\ LET opts == execaOptions(inputs[i].actionParams.options) IN
       IF Truthy(opts.timeout)
       THEN /\ Finish(i, inputs[i], handleExecuteCommandResult(Execa(opts, "timeout")))
            /\ procEvent' = [procEvent EXCEPT ![i] = "timeout"]
       ELSE UNCHANGED <<pc, ret, threw, procEvent>>
    /\ UNCHANGED <<now, fs, inputs, finalScriptPath, tempScriptWritten, loaded,
                   tempLeft, conn, calls, exec, lastWrite>>

\* -------------------------------------------------------- handleFilesystem
FilesystemOperations == {"readFile", "writeFile", "deleteFile", "listDir", "pathExists"}

\* The entries of TmpDir
InTmpDir == TmpPaths \cup {"/tmp/t.txt"}

\* Lines 105-128, up to the first await / returned promise
handleFilesystem(i, inp) ==
    LET params == inp.actionParams IN
    /\ IF params = NoParams
       THEN Finish(i, inp, Throw("TypeError: cannot destructure undefined"))
       ELSE IF ~Truthy(params.operation) \/ ~Truthy(params.path)
       THEN Finish(i, inp, Throw("Missing operation or path for filesystem action"))
       ELSE IF params.operation \notin FilesystemOperations
       THEN Finish(i, inp, Throw("Unsupported filesystem operation"))
       ELSE IF params.operation = "writeFile" /\ params.content = Undefined
       THEN Finish(i, inp, Throw("Missing content for writeFile"))
       ELSE Suspend(i, "fs_pending")
    /\ UNCHANGED <<now, fs, elapsed, finalScriptPath, tempScriptWritten, loaded, procEvent, tempLeft, conn, exec, lastWrite>>

\* What the fs-extra call of the operation does to the file system
FsEffect(params, f) ==
    CASE params.operation = "writeFile" ->
             [f EXCEPT ![params.path] =
                           Encode(CharsOf(params.content), params.encoding)]
      [] params.operation = "deleteFile" -> [f EXCEPT ![params.path] = NoFile]
      [] OTHER -> f

\* Lines 119-120: fs.remove(path) resolves whether or not anything was at
\* the path (unlike fs.unlink, which rejects with ENOENT), and the handler
\* returns the success marker.
RemoveOutcomeUnlink(params, f) ==
    IF f[params.path] = NoFile
    THEN Throw("ENOENT: no such file or directory")
    ELSE Return(ObjectOf({"success", "path", "message"},
                [Blank EXCEPT !.success = "true", !.path = params.path,
                              !.message = "Path deleted successfully."]))

RemoveOutcome(params, f) ==
    Return(ObjectOf({"success", "path", "message"},
           [Blank EXCEPT !.success = "true", !.path = params.path,
                         !.message = "Path deleted successfully."]))

\* What the handler returns once the fs-extra call succeeded (lines 112-124)
FsValue(params, f) ==
    CASE params.operation = "readFile" ->
             IF f[params.path] = NoFile
             THEN Throw("ENOENT: no such file or directory")
             ELSE Return(StringOf(Concat(Decode(f[params.path],
                                                params.encoding))))
      [] params.operation = "writeFile" ->
             Return(ObjectOf({"success", "path", "message"},
                    [Blank EXCEPT !.success = "true", !.path = params.path,
                                  !.message = "File written successfully."]))
      [] params.operation = "deleteFile" -> RemoveOutcome(params, f)
      [] params.operation = "listDir" ->
             IF params.path = TmpDir
             THEN Return(ArrayOf({p \in InTmpDir : f[p] # NoFile}))
             ELSE Throw("ENOTDIR: not a directory")
      [] OTHER ->
             Return(ObjectOf({"exists", "path"},
                    [Blank EXCEPT !.exists = IF f[params.path] = NoFile
                                             THEN "false" ELSE "true",
                                  !.path = params.path]))

\* What the handler returns when the fs-extra call fails with an I/O error
\* that is not the absence of the path: fs.pathExists answers false to every
\* failure of its access check, the other calls reject.
FsFault(params) ==
    IF params.operation = "pathExists"
    THEN Return(ObjectOf({"exists", "path"},
                [Blank EXCEPT !.exists = "false", !.path = params.path]))
    ELSE Throw("EIO: i/o error")

\* Who last wrote the file at each path, after the fs-extra call of i
WriteEffect(i, params, w) ==
    CASE params.operation = "writeFile" ->
             [w EXCEPT ![params.path] = [by |-> i, content |-> params.content,
                                         encoding |-> params.encoding]]
      [] params.operation = "deleteFile" -> [w EXCEPT ![params.path] = NoWrite]
      [] OTHER -> w

\* The fs-extra call completes (ioOk) or fails with an I/O error.
FilesystemSettles(i, ioOk) ==
    LET params == inputs[i].actionParams IN
    /\ pc[i] = "fs_pending"
    /\ IF ioOk
       THEN /\ Finish(i, inputs[i], FsValue(params, fs))
            /\ fs' = FsEffect(params, fs)
            /\ lastWrite' = WriteEffect(i, params, lastWrite)
       ELSE /\ Finish(i, inputs[i], FsFault(params))
            /\ UNCHANGED <<fs, lastWrite>>
    /\ UNCHANGED <<now, inputs, elapsed, finalScriptPath, tempScriptWritten,
                   loaded, procEvent, tempLeft, conn, calls, exec>>

\* ------------------------------------------------------------ handleDocker
DockerOperations == {"listContainers", "inspectContainer", "execInContainer"}

\* The chunks of a 'data' event: a line feed, "a" and the first byte of
\* U+00E9 (C3 A9); the second byte of U+00E9
Chunks == {<<10, 97, 195>>, <<169>>}

Whitespace == {" ", "<TAB>", "<LF>"}

\* command.split(' '): the fields between single spaces, empty ones included
RECURSIVE SplitOnSpace(_)
SplitOnSpace(chars) ==
    IF ~IsIn(chars, " ")
    THEN <<chars>>
    ELSE LET k == CHOOSE n \in DOMAIN chars :
                      chars[n] = " " /\ \A m \in 1..(n - 1) : chars[m] # " "
         IN <<SubSeq(chars, 1, k - 1)>>
                \o SplitOnSpace(SubSeq(chars, k + 1, Len(chars)))

\* Line 147: Cmd: Array.isArray(command) ? command : command.split(' ')
CmdOf(command) ==
    IF command.type = "array" THEN command.items ELSE SplitOnSpace(command.chars)

\* String.prototype.trim
RECURSIVE TrimStart(_)
TrimStart(chars) ==
    IF chars # <<>> /\ Head(chars) \in Whitespace
    THEN TrimStart(Tail(chars)) ELSE chars

RECURSIVE TrimEnd(_)
TrimEnd(chars) ==
    IF chars # <<>> /\ chars[Len(chars)] \in Whitespace
    THEN TrimEnd(SubSeq(chars, 1, Len(chars) - 1)) ELSE chars

Trim(chars) == TrimEnd(TrimStart(chars))

\* Lines 131-152, up to the first daemon call
handleDocker(i, inp) ==
    LET params == inp.actionParams IN
    /\ IF params = NoParams
       THEN /\ Finish(i, inp, Throw("TypeError: cannot destructure undefined"))
            /\ UNCHANGED exec
       ELSE IF ~Truthy(params.operation)
       THEN /\ Finish(i, inp, Throw("Missing operation for docker action"))
            /\ UNCHANGED exec
       ELSE IF params.operation \notin DockerOperations
       THEN /\ Finish(i, inp, Throw("Unsupported docker operation"))
            /\ UNCHANGED exec
       ELSE IF params.operation = "inspectContainer" /\ ~Truthy(params.containerId)
       THEN /\ Finish(i, inp, Throw("Missing containerId for inspectContainer"))
            /\ UNCHANGED exec
       ELSE IF /\ params.operation = "execInContainer"
               /\ (~Truthy(params.containerId) \/ ~CommandTruthy(params.command))
       THEN /\ Finish(i, inp, Throw("Missing containerId or command for execInContainer"))
            /\ UNCHANGED exec
       ELSE IF params.operation = "execInContainer" /\ params.command.type = "number"
       THEN /\ Finish(i, inp, Throw("TypeError: command.split is not a function"))
            /\ UNCHANGED exec
       ELSE IF params.operation = "execInContainer"
       THEN /\ Suspend(i, "docker_creating")
            /\ exec' = [exec EXCEPT ![i] = [NoExec EXCEPT
                                                !.created = TRUE,
                                                !.Cmd = CmdOf(params.command)]]
       ELSE /\ Suspend(i, "docker_pending")
            /\ UNCHANGED exec
    /\ UNCHANGED <<now, fs, elapsed, finalScriptPath, tempScriptWritten, loaded, procEvent, tempLeft, conn, lastWrite>>

\* What listContainers and inspectContainer resolve with (lines 139, 142)
DockerValue(params) ==
    IF params.operation = "listContainers"
    THEN ArrayOf({"c1"})
    ELSE ObjectOf({"Id"}, [Blank EXCEPT !.Id = params.containerId])

\* The daemon answers listContainers / inspectContainer, or the call fails.
DockerSettles(i, ok) ==
    /\ pc[i] = "docker_pending"
    /\ IF ok
       THEN Finish(i, inputs[i], Return(DockerValue(inputs[i].actionParams)))
       ELSE Finish(i, inputs[i], Throw("docker daemon error"))
    /\ UNCHANGED <<now, fs, inputs, elapsed, finalScriptPath, tempScriptWritten, loaded,
                   procEvent, tempLeft, conn, exec, calls, lastWrite>>

\* Line 146: the await of container.exec ends; on success exec.start is
\* called (line 154), on failure the handler rejects.
DockerExecCreated(i, ok) ==
    /\ pc[i] = "docker_creating"
    /\ IF ok
       THEN Suspend(i, "docker_starting")
       ELSE Finish(i, inputs[i], Throw("docker daemon error"))
    /\ UNCHANGED <<now, fs, inputs, elapsed, finalScriptPath, tempScriptWritten, loaded,
                   procEvent, tempLeft, conn, exec, calls, lastWrite>>


ExecPromiseSettle(i, o) ==
    IF pc[i] = "returned"
    THEN UNCHANGED <<pc, ret, threw>>
    ELSE Finish(i, inputs[i], o)

\* Lines 154-181: the callback of exec.start, with an error, with the stream
\* (the listeners are attached), or with neither
DockerExecStarted(i, outcome) ==
    /\ pc[i] = "docker_starting"
    /\ CASE outcome = "err" ->
                /\ ExecPromiseSettle(i, Throw("exec start error"))
                /\ UNCHANGED exec
         [] outcome = "nostream" ->
                /\ ExecPromiseSettle(i, Throw("Stream not available for exec"))
                /\ UNCHANGED exec
         [] OTHER ->
                /\ Suspend(i, "docker_stream")
                /\ exec' = [exec EXCEPT ![i].attached = TRUE]
    /\ UNCHANGED <<now, fs, inputs, elapsed, finalScriptPath, tempScriptWritten, loaded,
                   procEvent, tempLeft, conn, calls, lastWrite>>

\* Lines 163-165: a 'data' event; the chunk is decoded by itself and appended
DockerStreamData(i, chunk) ==
    /\ exec[i].attached /\ ~exec[i].ended /\ ~exec[i].errored
    /\ Len(exec[i].received) < MaxChunks
    /\ exec' = [exec EXCEPT ![i].received = Append(@, chunk),
                            ![i].stdoutOutput = @ \o Utf8Decode(chunk)]
    /\ UNCHANGED <<now, fs, pc, inputs, ret, threw, elapsed,
                   finalScriptPath, tempScriptWritten, loaded, procEvent, tempLeft, conn, calls, lastWrite>>

\* Lines 166-168: the stream's 'end'; exec.inspect is called
DockerStreamEnd(i) ==
    /\ exec[i].attached /\ ~exec[i].ended
    /\ exec' = [exec EXCEPT ![i].ended = TRUE, ![i].inspect = "issued"]
    /\ UNCHANGED <<now, fs, pc, inputs, ret, threw, elapsed,
                   finalScriptPath, tempScriptWritten, loaded, procEvent, tempLeft, conn, calls, lastWrite>>

\* Line 178: the stream's 'error', before or after its 'end'
DockerStreamError(i) ==
    /\ exec[i].attached /\ ~exec[i].errored
    /\ exec' = [exec EXCEPT ![i].errored = TRUE]
    /\ ExecPromiseSettle(i, Throw("stream error"))
    /\ UNCHANGED <<now, fs, inputs, elapsed, finalScriptPath, tempScriptWritten, loaded,
                   procEvent, tempLeft, conn, calls, lastWrite>>

\* Lines 170-175: the value the promise is resolved with
ExecValue(stdoutOutput, exitCode) ==
    ObjectOf({"output", "stderr", "exitCode"},
             [Blank EXCEPT !.output = Concat(Trim(stdoutOutput)),
                           !.stderr = IF exitCode # "0"
                                      THEN "Error likely occurred" ELSE "",
                           !.exitCode = exitCode])

\* Lines 168-176: the callback of exec.inspect
DockerInspectAnswered(i, ok, exitCode) ==
    /\ exec[i].inspect = "issued"
    /\ exec' = [exec EXCEPT ![i].inspect = "answered"]
    /\ IF ok
       THEN ExecPromiseSettle(i, Return(ExecValue(exec[i].stdoutOutput, exitCode)))
       ELSE ExecPromiseSettle(i, Throw("inspect error"))
    /\ UNCHANGED <<now, fs, inputs, elapsed, finalScriptPath, tempScriptWritten, loaded,
                   procEvent, tempLeft, conn, calls, lastWrite>>

\* --------------------------------------------------------------- handleSsh
\* Line 192: the check of the required parameters
SshParamsMissingNoAuthCheck(params) ==
    ~Truthy(params.host) \/ ~Truthy(params.username) \/ ~Truthy(params.command)

SshParamsMissing(params) ==
    \/ ~Truthy(params.host)
    \/ ~Truthy(params.username)
    \/ (~Truthy(params.password) /\ ~Truthy(params.privateKey))
    \/ ~Truthy(params.command)

\* Lines 190-223: validation, then new SSHClient(), listeners, connect()
handleSsh(i, inp) ==
    LET params == inp.actionParams IN
    /\ IF params = NoParams
       THEN Finish(i, inp, Throw("TypeError: cannot destructure undefined"))
            /\ UNCHANGED conn
       ELSE IF SshParamsMissing(params)
       THEN Finish(i, inp, Throw("Missing required SSH parameters"))
            /\ UNCHANGED conn
       ELSE /\ Suspend(i, "ssh_connecting")
            /\ conn' = [conn EXCEPT ![i] = [NoConn EXCEPT !.created = TRUE,
                                                          !.connectCalled = TRUE]]
    /\ UNCHANGED <<now, fs, elapsed, finalScriptPath, tempScriptWritten, loaded, procEvent, tempLeft, exec, lastWrite>>

\* Lines 198-199: 'ready' fires and conn.exec is called
SshReady(i) ==
    /\ pc[i] = "ssh_connecting"
    /\ conn' = [conn EXCEPT ![i].ready = TRUE]
    /\ Suspend(i, "ssh_exec")
    /\ UNCHANGED <<now, fs, inputs, elapsed, finalScriptPath, tempScriptWritten, loaded, procEvent, tempLeft, calls, exec, lastWrite>>

\* Lines 199-213: the callback of conn.exec
SshExecCallback(i, err) ==
    /\ pc[i] = "ssh_exec"
    /\ IF err
       THEN /\ conn' = [conn EXCEPT ![i].ended = TRUE]
            /\ Finish(i, inputs[i], Throw("Unable to exec"))
       ELSE /\ Suspend(i, "ssh_stream")
            /\ UNCHANGED conn
    /\ UNCHANGED <<now, fs, inputs, elapsed, finalScriptPath, tempScriptWritten, loaded, procEvent, tempLeft, calls, exec, lastWrite>>

\* Lines 206-209: the stream's 'close'
SshStreamClose(i, code) ==
    /\ pc[i] = "ssh_stream"
    /\ code \in {"0", "1"}
    /\ conn' = [conn EXCEPT ![i].ended = TRUE]
    /\ Finish(i, inputs[i],
              Return(ObjectOf({"output", "stderr", "code", "signal"},
                     [Blank EXCEPT !.output = "out", !.stderr = "",
                                   !.code = code])))
    /\ UNCHANGED <<now, fs, inputs, elapsed, finalScriptPath, tempScriptWritten, loaded, procEvent, tempLeft, calls, exec, lastWrite>>

\* Lines 215-217: the connection's 'error', before or after 'ready'
SshConnError(i) ==
    /\ pc[i] \in {"ssh_connecting", "ssh_exec", "ssh_stream"}
    /\ Finish(i, inputs[i], Throw("connection error"))
    /\ UNCHANGED <<now, fs, inputs, elapsed, finalScriptPath, tempScriptWritten,
                   loaded, procEvent, tempLeft, conn, calls, exec, lastWrite>>

\* ------------------------------------------------------ handlePythonScript
\* Line 232: if (scriptContent)
HasScriptContentDefined(scriptContent) == scriptContent # Undefined

HasScriptContent(scriptContent) == Truthy(scriptContent)

\* Line 243: execa('python3', [finalScriptPath, ...args]) is given no options
pythonExecaOptions(params) == NoOptions

\* Line 253: if (tempScriptWritten && finalScriptPath)
CleanupDue(written, path) == written /\ Truthy(path)

\* Lines 242-251: the try/catch around execa
handlePythonScriptResult(x) ==
    IF ~x.rejected
    THEN Return(ObjectOf({"stdout", "stderr", "exitCode"},
                [Blank EXCEPT !.stdout = x.r.stdout, !.stderr = x.r.stderr,
                              !.exitCode = x.r.exitCode]))
    ELSE Return(ObjectOf({"stdout", "stderr", "exitCode", "error"},
                [Blank EXCEPT !.stdout = x.r.stdout, !.stderr = x.r.stderr,
                              !.exitCode = x.r.exitCode,
                              !.error = x.r.shortMessage]))

\* Lines 227-243, up to the first await: of fs.writeFile when scriptContent
\* is given, of execa otherwise
handlePythonScript(i, inp) ==
    LET params == inp.actionParams IN
    /\ IF params = NoParams
       THEN /\ Finish(i, inp, Throw("TypeError: cannot destructure undefined"))
            /\ UNCHANGED finalScriptPath
       ELSE IF HasScriptContent(params.scriptContent)
       THEN /\ finalScriptPath' = [finalScriptPath EXCEPT ![i] = TmpPath(now)]
            /\ Suspend(i, "py_writing")
       ELSE IF ~Truthy(params.scriptPath)
       THEN /\ Finish(i, inp, Throw("Missing scriptContent or scriptPath"))
            /\ UNCHANGED finalScriptPath
       ELSE /\ finalScriptPath' = [finalScriptPath EXCEPT ![i] = params.scriptPath]
            /\ Suspend(i, "py_running")
    /\ UNCHANGED <<now, fs, elapsed, tempScriptWritten, loaded, procEvent, tempLeft, conn, exec, lastWrite>>

\* Lines 234-243: fs.writeFile of the temporary script completes and the
\* interpreter is spawned, or fs.writeFile fails and the handler throws.
PythonScriptWritten(i, ioOk) ==
    /\ pc[i] = "py_writing"
    /\ IF ioOk
       THEN /\ fs' = [fs EXCEPT ![finalScriptPath[i]] =
                          Utf8Encode(CharsOf(inputs[i].actionParams.scriptContent))]
            /\ lastWrite' = [lastWrite EXCEPT ![finalScriptPath[i]] =
                          [by |-> i,
                           content |-> inputs[i].actionParams.scriptContent,
                           encoding |-> Undefined]]
            /\ tempScriptWritten' = [tempScriptWritten EXCEPT ![i] = TRUE]
            /\ Suspend(i, "py_running")
       ELSE /\ Finish(i, inputs[i], Throw("EIO: i/o error"))
            /\ UNCHANGED <<fs, tempScriptWritten, lastWrite>>
    /\ UNCHANGED <<now, inputs, elapsed, finalScriptPath, loaded, procEvent, tempLeft, conn, calls, exec>>

\* The started interpreter opens the file at the path it was given.
PythonScriptLoad(i) ==
    /\ pc[i] = "py_running"
    /\ loaded[i] = NotLoaded
    /\ loaded' = [loaded EXCEPT ![i] = fs[finalScriptPath[i]]]
    /\ UNCHANGED <<now, fs, pc, inputs, ret, threw, elapsed, finalScriptPath,
                   tempScriptWritten, procEvent, tempLeft, conn, calls, exec, lastWrite>>

\* Lines 243-256: the interpreter exits (status 2 when it found no file), or
\* could not be started; the handler builds its value and the finally block
\* removes the temporary script (fs.remove may fail, which is only logged).
PythonScriptSettles(i, event, removed) ==
    /\ pc[i] = "py_running"
    /\ \/ event = "spawnError" /\ loaded[i] = NotLoaded
       \/ event = "exit2" /\ loaded[i] = NoFile
       \/ event \in {"exit0", "exit1"} /\ loaded[i] \notin {NotLoaded, NoFile}
    /\ Finish(i, inputs[i], handlePythonScriptResult(
                  Execa(pythonExecaOptions(inputs[i].actionParams), event)))
    /\ procEvent' = [procEvent EXCEPT ![i] = event]
    /\ IF CleanupDue(tempScriptWritten[i], finalScriptPath[i])
       THEN /\ fs' = IF removed THEN [fs EXCEPT ![finalScriptPath[i]] = NoFile]
                                 ELSE fs
            /\ lastWrite' = IF removed
                            THEN [lastWrite EXCEPT ![finalScriptPath[i]] = NoWrite]
                            ELSE lastWrite
       ELSE removed /\ UNCHANGED <<fs, lastWrite>>
    /\ tempLeft' = [tempLeft EXCEPT ![i] =
                        IF ~tempScriptWritten[i] THEN "n/a"
                        ELSE IF fs'[finalScriptPath[i]] = NoFile THEN "gone"
                        ELSE IF CleanupDue(tempScriptWritten[i], finalScriptPath[i])
                                /\ ~removed
                        THEN "left, fs.remove failed"
                        ELSE "left"]
    /\ UNCHANGED <<now, inputs, elapsed, finalScriptPath, tempScriptWritten,
                   loaded, conn, calls, exec>>

\* The timeout the caller put in the parameters runs out while the
\* interpreter is still running.  Line 243 gave execa no options, so no timer
\* was set and nothing happens to the interpreter.
PythonScriptDeadline(i) ==
    /\ pc[i] = "py_running"
    /\ ~elapsed[i]
    /\ Truthy(inputs[i].actionParams.options.timeout)
    /\ ~Truthy(pythonExecaOptions(inputs[i].actionParams).timeout)
    /\ elapsed' = [elapsed EXCEPT ![i] = TRUE]
    /\ UNCHANGED <<now, fs, pc, inputs, ret, threw, finalScriptPath,
                   tempScriptWritten, loaded, procEvent, tempLeft, conn, calls, exec, lastWrite>>

\* ------------------------------------------------------------------- _call
\* Lines 48-67: the switch on actionType; each case calls one handler and
\* breaks, the default case calls none.
NoHandler == "none"

HandlerOfSwitched(actionType) ==
    CASE actionType = "filesystem" -> "handleFilesystem"
      [] actionType = "executeCommand" -> "handleExecuteCommand"
      [] actionType = "docker" -> "handleSsh"
      [] actionType = "ssh" -> "handleDocker"
      [] actionType = "pythonScript" -> "handlePythonScript"
      [] OTHER -> NoHandler

HandlerOf(actionType) ==
    CASE actionType = "filesystem" -> "handleFilesystem"
      [] actionType = "executeCommand" -> "handleExecuteCommand"
      [] actionType = "docker" -> "handleDocker"
      [] actionType = "ssh" -> "handleSsh"
      [] actionType = "pythonScript" -> "handlePythonScript"
      [] OTHER -> NoHandler

\* Lines 43-80: the dispatch on actionType
\* Invocations are numbered in the order in which they are made.
_call(i, inp) ==
    LET handler == HandlerOf(inp.actionType) IN
    /\ pc[i] = "idle"
    /\ \A j \in Inv : j < i => pc[j] # "idle"
    /\ inputs' = [inputs EXCEPT ![i] = inp]
    /\ calls' = [calls EXCEPT ![i] = IF handler = NoHandler
                                     THEN calls[i]
                                     ELSE Append(calls[i], handler)]
    /\ CASE handler = "handleFilesystem" -> handleFilesystem(i, inp)
         [] handler = "handleExecuteCommand" -> handleExecuteCommand(i, inp)
         [] handler = "handleDocker" -> handleDocker(i, inp)
         [] handler = "handleSsh" -> handleSsh(i, inp)
         [] handler = "handlePythonScript" -> handlePythonScript(i, inp)
         [] OTHER -> /\ Finish(i, inp, Throw("Unsupported actionType"))
                     /\ UNCHANGED <<now, fs, elapsed, finalScriptPath,
                                    tempScriptWritten, loaded, procEvent, tempLeft, conn, exec, lastWrite>>

\* Time passes: Date.now() moves on.
Tick ==
    /\ now < MaxClock
    /\ now' = now + 1
    /\ UNCHANGED <<fs, pc, inputs, ret, threw, elapsed, finalScriptPath,
                   tempScriptWritten, loaded, procEvent, tempLeft, conn, calls, exec, lastWrite>>

Next ==
    \/ Tick
    \/ \E i \in Inv :
        \/ \E inp \in Requests : _call(i, inp)
        \/ \E event \in ExecaEvents : ExecuteCommandSettles(i, event)
        \/ ExecuteCommandDeadline(i)
        \/ \E ioOk \in BOOLEAN : FilesystemSettles(i, ioOk)
        \/ \E ok \in BOOLEAN : DockerSettles(i, ok)
        \/ \E ok \in BOOLEAN : DockerExecCreated(i, ok)
        \/ \E outcome \in {"err", "stream", "nostream"} : DockerExecStarted(i, outcome)
        \/ \E chunk \in Chunks : DockerStreamData(i, chunk)
        \/ DockerStreamEnd(i)
        \/ DockerStreamError(i)
        \/ \E ok \in BOOLEAN, exitCode \in {"0", "1"} :
               DockerInspectAnswered(i, ok, exitCode)
        \/ SshReady(i)
        \/ \E err \in BOOLEAN : SshExecCallback(i, err)
        \/ \E code \in {"0", "1"} : SshStreamClose(i, code)
        \/ SshConnError(i)
        \/ \E ioOk \in BOOLEAN : PythonScriptWritten(i, ioOk)
        \/ PythonScriptLoad(i)
        \/ \E event \in ExecaEvents, removed \in BOOLEAN :
               PythonScriptSettles(i, event, removed)
        \/ PythonScriptDeadline(i)

Spec == Init /\ [][Next]_vars

\* ===================================================================
\* Properties
\* ===================================================================
Returned(i) == pc[i] = "returned"
ParamsOfInv(i) == inputs[i].actionParams
IsKind(i, actionType) ==
    inputs[i].actionType = actionType /\ ParamsOfInv(i) # NoParams

ErrorKeys == {"error", "details", "actionType", "actionParams"}
HasError(r) == "error" \in r.keys
HasPayload(r) ==
    \/ r.type \in {"string", "array"}
    \/ r.type = "object" /\ r.keys \ ErrorKeys # {}

\* The error object of _call's catch: message, details, the kind and the
\* parameters of the request (absent from the JSON text only when the request
\* had none).
ErrorShaped(r, inp) ==
    /\ r.type = "object"
    /\ {"error", "details", "actionType"} \subseteq r.keys
    /\ r.keys \subseteq ErrorKeys
    /\ r.val.error # Undefined
    /\ r.val.actionType = inp.actionType
    /\ r.val.actionParams = inp.actionParams
    /\ ("actionParams" \in r.keys) = (inp.actionParams # NoParams)

\* C1: no invocation of _call lets an exception escape; every invocation that
\* ended returned a result, and the result is error-shaped whenever the
\* handler (or the default case of the dispatch) threw.
C1_NeverThrows ==
    \A i \in Inv :
        /\ pc[i] # "escaped"
        /\ Returned(i) => /\ ret[i].type # "none"
                          /\ threw[i] => ErrorShaped(ret[i], inputs[i])

\* C1 witness: an unknown actionType and a backend failure (an SSH connection
\* error) have both been turned into error results.
C1_Witness ==
    /\ \E i \in Inv : Returned(i) /\ threw[i] /\ inputs[i].actionType = "reboot"
    /\ \E i \in Inv : Returned(i) /\ threw[i] /\ conn[i].connectCalled

\* C2 (as claimed): the temporary script of an invocation exists while its
\* interpreter runs and is gone when handlePythonScript returns, however the
\* interpreter ended.  (A removal that itself fails is logged and leaves the
\* file: that is no exit path of the claim, and it is not held against it.)
C2_TempFileLifetime ==
    \A i \in Inv :
        tempScriptWritten[i] =>
            /\ pc[i] = "py_running" => fs[finalScriptPath[i]] # NoFile
            /\ Returned(i) => tempLeft[i] \in {"gone", "left, fs.remove failed"}

\* C3 (as claimed): concurrent script invocations never share a temporary
\* path, and no interpreter is run against a temporary path that a cleanup
\* step has removed.
HoldsTempPath(i) ==
    /\ pc[i] \in {"py_writing", "py_running"}
    /\ finalScriptPath[i] \in TmpPaths

C3_TempPathExclusive ==
    /\ \A i, j \in Inv :
          i # j /\ HoldsTempPath(i) /\ HoldsTempPath(j)
              => finalScriptPath[i] # finalScriptPath[j]
    /\ \A i \in Inv : tempScriptWritten[i] => loaded[i] # NoFile

ExecaRejected(i) ==
    /\ ~threw[i]
    /\ procEvent[i] \notin {"none", "exit0"}
    /\ \/ IsKind(i, "pythonScript")
       \/ IsKind(i, "executeCommand") /\ ParamsOfInv(i).options.reject # "false"

SshRequestIncomplete(p) ==
    \/ p.password \in {Undefined, ""} /\ p.privateKey \in {Undefined, ""}
    \/ p.host \in {Undefined, ""}
    \/ p.username \in {Undefined, ""}
    \/ p.command \in {Undefined, ""}

C7_SshValidatedFirst ==
    \A i \in Inv :
        IsKind(i, "ssh") /\ SshRequestIncomplete(ParamsOfInv(i)) =>
            /\ Returned(i)
            /\ threw[i]
            /\ ret[i].val.error = "Missing required SSH parameters"
            /\ ~conn[i].created
            /\ ~conn[i].connectCalled

C7_Witness ==
    \E i \in Inv :
        /\ IsKind(i, "ssh") /\ Returned(i)
        /\ ParamsOfInv(i).host = "h" /\ ParamsOfInv(i).command = "ls"
        /\ ParamsOfInv(i).password = Undefined
        /\ ParamsOfInv(i).privateKey = Undefined

\* C8 (as claimed): when an ssh invocation that opened a connection delivers
\* its result or error, conn.end has been called.
C8_ConnectionClosed ==
    \A i \in Inv : Returned(i) /\ conn[i].connectCalled => conn[i].ended

\* C9: a script request with neither scriptContent nor scriptPath (an empty
\* scriptContent counts as none) ends with the validation error: no temporary
\* file was written and no interpreter spawned.
C9_ScriptValidatedFirst ==
    \A i \in Inv :
        /\ IsKind(i, "pythonScript")
        /\ ParamsOfInv(i).scriptContent \in {Undefined, ""}
        /\ ParamsOfInv(i).scriptPath \in {Undefined, ""}
        => /\ Returned(i)
           /\ threw[i]
           /\ ret[i].val.error = "Missing scriptContent or scriptPath"
           /\ ~tempScriptWritten[i]
           /\ finalScriptPath[i] = Undefined
           /\ loaded[i] = NotLoaded
           /\ procEvent[i] = "none"

C9_Witness ==
    \E i \in Inv :
        /\ IsKind(i, "pythonScript") /\ Returned(i)
        /\ ParamsOfInv(i).scriptContent = ""
        /\ ParamsOfInv(i).scriptPath = Undefined

\* C10 (as claimed): in the command handler and in the script handler, once
\* the caller's timeout has run out on a running process the invocation has
\* returned and its result is flagged timedOut.
C10_TimeoutHonored ==
    \A i \in Inv :
        elapsed[i] => Returned(i) /\ ret[i].val.timedOut = "true"

\* C10 (amended): the command handler honors the caller's timeout (process
\* killed, invocation returned, timedOut=true); the script handler gives the
\* interpreter no timeout and its result never carries a timedOut flag.
C10_CommandTimeoutOnly ==
    \A i \in Inv :
        /\ IsKind(i, "executeCommand") /\ elapsed[i] =>
              /\ Returned(i)
              /\ procEvent[i] = "timeout"
              /\ "timedOut" \in ret[i].keys
              /\ ret[i].val.timedOut = "true"
        /\ IsKind(i, "pythonScript") /\ Returned(i) =>
              /\ "timedOut" \notin ret[i].keys
              /\ procEvent[i] # "timeout"

C10_Witness ==
    /\ \E i \in Inv : IsKind(i, "executeCommand") /\ elapsed[i] /\ Returned(i)
    /\ \E i \in Inv : IsKind(i, "pythonScript") /\ elapsed[i] /\ Returned(i)

\* The states in which the handler of an action kind can be waiting
DockerWaiting ==
    {"docker_pending", "docker_creating", "docker_starting", "docker_stream"}

WaitingIn(actionType) ==
    CASE actionType = "filesystem" -> {"fs_pending"}
      [] actionType = "executeCommand" -> {"cmd_running"}
      [] actionType = "docker" -> DockerWaiting
      [] actionType = "ssh" -> {"ssh_connecting", "ssh_exec", "ssh_stream"}
      [] actionType = "pythonScript" -> {"py_writing", "py_running"}
      [] OTHER -> {}

\* C11: an invocation with one of the five kinds has called exactly one
\* handler, the one of its kind, exactly once, at every moment after the
\* dispatch and also after that handler failed; it waits only where that
\* handler waits and no backend of another handler (child process, container
\* exec, SSH client, script file) has been touched on its behalf.
C11_OneHandlerOnce ==
    \A i \in Inv :
        pc[i] # "idle" /\ inputs[i].actionType \in KnownActionTypes =>
            LET kind == inputs[i].actionType IN
            /\ Len(calls[i]) = 1
            /\ kind = "filesystem" => calls[i] = <<"handleFilesystem">>
            /\ kind = "executeCommand" => calls[i] = <<"handleExecuteCommand">>
            /\ kind = "docker" => calls[i] = <<"handleDocker">>
            /\ kind = "ssh" => calls[i] = <<"handleSsh">>
            /\ kind = "pythonScript" => calls[i] = <<"handlePythonScript">>
            /\ pc[i] \in WaitingIn(kind) \cup {"returned"}
            /\ conn[i].created => kind = "ssh"
            /\ exec[i].created => kind = "docker"
            /\ finalScriptPath[i] # Undefined => kind = "pythonScript"
            /\ procEvent[i] # "none" => kind \in {"executeCommand", "pythonScript"}

\* C11 witness: a docker invocation and an ssh invocation have both ended
\* with a failure of their backend (the daemon, the connection).
C11_Witness ==
    /\ \E i \in Inv : /\ IsKind(i, "docker") /\ Returned(i) /\ threw[i]
                      /\ exec[i].created /\ calls[i] = <<"handleDocker">>
    /\ \E i \in Inv : /\ IsKind(i, "ssh") /\ Returned(i) /\ threw[i]
                      /\ conn[i].connectCalled /\ calls[i] = <<"handleSsh">>

\* The filesystem request of invocation i
FsOp(i) == ParamsOfInv(i).operation
FsPath(i) == ParamsOfInv(i).path

\* C12 (as claimed): a readFile that follows a successful writeFile of the
\* same path, with nothing written to or removed from the path in between,
\* returns exactly the content written, whatever the content (and whatever
\* encodings the two requests name); pathExists then reports true; pathExists
\* of a path without a file reports false and is no error.
C12_WriteThenRead ==
    [][\A i \in Inv :
          /\ /\ FilesystemSettles(i, TRUE)
             /\ FsPath(i) \in Paths /\ lastWrite[FsPath(i)] # NoWrite
             =>
                /\ FsOp(i) = "readFile" =>
                      /\ ~threw'[i]
                      /\ ret'[i] = StringOf(lastWrite[FsPath(i)].content)
                /\ FsOp(i) = "pathExists" => ret'[i].val.exists = "true"
          /\ /\ \E ioOk \in BOOLEAN : FilesystemSettles(i, ioOk)
             /\ FsOp(i) = "pathExists" /\ fs[FsPath(i)] = NoFile
             => ~threw'[i] /\ ret'[i].val.exists = "false"
      ]_vars

\* The content is text that the encoding writes without loss: for utf8 it
\* has no unpaired surrogate, for hex it is an even number of lower-case hex
\* digits.
WrittenWithoutLoss(content, encoding) ==
    LET chars == CharsOf(content) IN
    IF encoding = "hex"
    THEN /\ Len(chars) % 2 = 0
         /\ \A k \in DOMAIN chars : IsIn(HexDigits, chars[k])
    ELSE \A k \in DOMAIN chars : CodeOf(chars[k]) \notin 55296..57343

\* C12 (amended): such a readFile returns the bytes that writeFile wrote in
\* its encoding, decoded in the encoding of the read; this is exactly the
\* content written when both requests use the same encoding (utf8 unless
\* named) and the content is text which that encoding writes without loss.
\* pathExists then reports true unless its access check fails; pathExists of
\* a path without a file reports false and is no error.
C12_RoundTripSameEncoding ==
    [][\A i \in Inv :
          /\ /\ FilesystemSettles(i, TRUE)
             /\ FsPath(i) \in Paths /\ lastWrite[FsPath(i)] # NoWrite
             =>
                LET w == lastWrite[FsPath(i)] IN
                /\ FsOp(i) = "readFile" =>
                      /\ ~threw'[i]
                      /\ ret'[i] = StringOf(Concat(Decode(
                                       Encode(CharsOf(w.content), w.encoding),
                                       ParamsOfInv(i).encoding)))
                      /\ /\ ParamsOfInv(i).encoding = w.encoding
                         /\ WrittenWithoutLoss(w.content, w.encoding)
                         => ret'[i] = StringOf(w.content)
                /\ FsOp(i) = "pathExists" => ret'[i].val.exists = "true"
          /\ /\ \E ioOk \in BOOLEAN : FilesystemSettles(i, ioOk)
             /\ FsOp(i) = "pathExists" /\ fs[FsPath(i)] = NoFile
             => ~threw'[i] /\ ret'[i].val.exists = "false"
      ]_vars

\* C12 witness: "abc" was written to /tmp/t.txt and a readFile of the path
\* has returned "abc".
C12_Witness ==
    /\ lastWrite["/tmp/t.txt"].content = "abc"
    /\ \E i \in Inv : /\ IsKind(i, "filesystem") /\ FsOp(i) = "readFile"
                      /\ Returned(i) /\ ~threw[i]
                      /\ ret[i] = StringOf("abc")

\* The success marker of deleteFile
DeleteSuccess(path) ==
    ObjectOf({"success", "path", "message"},
             [Blank EXCEPT !.success = "true", !.path = path,
                           !.message = "Path deleted successfully."])

\* C13: a deleteFile whose fs.remove call does not fail with an I/O error
\* returns the success marker, which is the same whether or not anything was
\* at the path; afterwards nothing is at the path and every other path is as
\* before, so the file system is unchanged when nothing was there, and a
\* second deleteFile changes nothing and returns the same.
C13_DeleteIdempotent ==
    [][\A i \in Inv :
          FilesystemSettles(i, TRUE) /\ FsOp(i) = "deleteFile" =>
              /\ ~threw'[i]
              /\ ret'[i] = DeleteSuccess(FsPath(i))
              /\ fs' = [fs EXCEPT ![FsPath(i)] = NoFile]
              /\ fs[FsPath(i)] = NoFile => fs' = fs
      ]_vars

\* C13 witness: deleteFile was applied twice to the same path, where nothing
\* is, and both returned the same success marker.
C13_Witness ==
    \E i, j \in Inv :
        /\ i # j
        /\ IsKind(i, "filesystem") /\ FsOp(i) = "deleteFile" /\ Returned(i)
        /\ IsKind(j, "filesystem") /\ FsOp(j) = "deleteFile" /\ Returned(j)
        /\ FsPath(i) = FsPath(j)
        /\ ret[i] = DeleteSuccess(FsPath(i)) /\ ret[j] = ret[i]
        /\ fs[FsPath(i)] = NoFile

\* All bytes of a sequence of chunks, in order
RECURSIVE Flatten(_)
Flatten(chunks) ==
    IF chunks = <<>> THEN <<>> ELSE Head(chunks) \o Flatten(Tail(chunks))

\* C14 (as claimed): in execInContainer the inspect call is issued only after
\* the stream has ended, a result is produced only after the inspect call has
\* answered, the output of the result is all that was received on the stream,
\* chunk after chunk in arrival order, and the invocation has one outcome, a
\* result or an error.
C14_ExecOrderedOnce ==
    \A i \in Inv :
        exec[i].created =>
            /\ exec[i].inspect # "none" => exec[i].ended
            /\ Returned(i) /\ ~threw[i] =>
                  /\ exec[i].inspect = "answered"
                  /\ ret[i].val.output =
                         Concat(Utf8Decode(Flatten(exec[i].received)))
            /\ Returned(i) => (HasPayload(ret[i]) # HasError(ret[i]))

\* What execInContainer does: the steps are ordered and the promise is
\* settled once, and the output is the chunks, each decoded by itself, in
\* arrival order, without the whitespace at both ends.
RECURSIVE DecodeEach(_)
DecodeEach(chunks) ==
    IF chunks = <<>> THEN <<>>
    ELSE Utf8Decode(Head(chunks)) \o DecodeEach(Tail(chunks))

ExecOrderedOnceTrimmed ==
    \A i \in Inv :
        exec[i].created =>
            /\ exec[i].inspect # "none" => exec[i].ended
            /\ exec[i].stdoutOutput = DecodeEach(exec[i].received)
            /\ Returned(i) /\ ~threw[i] =>
                  /\ exec[i].inspect = "answered"
                  /\ ret[i].val.output =
                         Concat(Trim(DecodeEach(exec[i].received)))
            /\ Returned(i) => (HasPayload(ret[i]) # HasError(ret[i]))

ExecSettledOnce ==
    [][\A i \in Inv : Returned(i) =>
          pc'[i] = pc[i] /\ ret'[i] = ret[i] /\ threw'[i] = threw[i]]_vars

\* The non-empty words of a string, separated by whitespace
RECURSIVE Words(_)
Words(chars) ==
    LET t == TrimStart(chars) IN
    IF t = <<>> THEN <<>>
    ELSE LET n == CHOOSE n \in 1..Len(t) :
                      /\ \A m \in 1..n : t[m] \notin Whitespace
                      /\ n = Len(t) \/ t[n + 1] \in Whitespace
         IN <<SubSeq(t, 1, n)>> \o Words(SubSeq(t, n + 1, Len(t)))

\* C15 (as claimed): the Cmd given to the container exec is the list of the
\* non-empty whitespace-separated words of a command string, and is the
\* argument list itself when the command is a list.
C15_CommandSplitOnWhitespace ==
    \A i \in Inv :
        IsKind(i, "docker") /\ exec[i].created =>
            LET command == ParamsOfInv(i).command IN
            /\ command.type = "string" => exec[i].Cmd = Words(command.chars)
            /\ command.type = "array" => exec[i].Cmd = command.items

\* A step of the script handler of invocation i
ScriptHandlerStep(i) ==
    /\ IsKind(i, "pythonScript")
    /\ pc[i] \in {"py_writing", "py_running"}
    /\ pc'[i] # pc[i] \/ loaded'[i] # loaded[i]

\* C16 (as claimed): a step of the script handler removes only a file that
\* its own invocation wrote, never writes or removes the file at the
\* scriptPath of the request, and when scriptContent is given the interpreter
\* opens the temporary file.
C16_CleanupOwnFileOnly ==
    [][\A i \in Inv :
          ScriptHandlerStep(i) =>
              LET params == ParamsOfInv(i) IN
              /\ \A q \in Paths :
                    fs[q] # NoFile /\ fs'[q] = NoFile => lastWrite[q].by = i
              /\ Truthy(params.scriptPath) =>
                    fs'[params.scriptPath] = fs[params.scriptPath]
              /\ HasScriptContent(params.scriptContent) =>
                    finalScriptPath[i] \in TmpPaths
      ]_vars

\* The handler itself never touches a scriptPath that is not the name of a
\* temporary script.
ScriptPathUntouched ==
    [][\A i \in Inv :
          ScriptHandlerStep(i) =>
              LET params == ParamsOfInv(i) IN
              /\ \A q \in Paths : fs'[q] # fs[q] =>
                    q = finalScriptPath[i] /\ q \in TmpPaths
              /\ Truthy(params.scriptPath) /\ params.scriptPath \notin TmpPaths =>
                    fs'[params.scriptPath] = fs[params.scriptPath]
      ]_vars

====
